---- MODULE Spec2Model ----
(***************************************************************************)
(* osrs_tools: the Highscores snapshot (highscores.py), the ironman probe  *)
(* (resources/utils.py) and the real time price checkers                   *)
(* (realtimeprices.py), driven by one synchronous caller.  Every HTTP      *)
(* exchange is one step whose response is chosen by the environment.       *)
(***************************************************************************)
EXTENDS Integers, Sequences, FiniteSets, TLC

VARIABLES
    op,             \* the call in progress, or the last one made
    pc,             \* where that call stands: "done", or the loop it is in
                    \* ("fetch", "probe_ironman", "probe_default")
    ret,            \* how the last finished call ended (return or raise)
    n_retries,      \* the local n_retries of the retry loop in progress
    requests,       \* the HTTP exchanges of the call: <<[url, status], ...>>
    warnings,       \* the warnings the call has emitted through warn()
    hs_live,        \* a Highscores object has been constructed
    hs_target,      \* Highscores.target
    hs_response,    \* Highscores._response
    hs_data,        \* Highscores.data
    hs_attrs,       \* the entry attributes set on the Highscores object
    rt_live,        \* a price checker has been constructed
    user_agent,     \* BaseRTPriceChecker.user_agent
    endpoint,       \* BaseRTPriceChecker.endpoint
    rt_response,    \* BaseRTPriceChecker._response
    mapping_json,   \* BaseRTPriceChecker.mapping_json
    item_name_map,  \* BaseRTPriceChecker.item_name_map: lowercase name -> id
    item_id_map,    \* BaseRTPriceChecker.item_id_map: id -> name
    rt_json,        \* BaseRTPriceChecker.json
    itemdata,       \* BaseRTPriceChecker.itemdata: id -> price info
    last_updated,   \* BaseRTPriceChecker.last_updated
    query           \* the argument of the last get_price_info call

callVars == <<op, pc, ret, n_retries, requests, warnings>>
hsVars == <<hs_live, hs_target, hs_response, hs_data, hs_attrs>>
rtVars == <<rt_live, user_agent, endpoint, rt_response, mapping_json,
            item_name_map, item_id_map, rt_json, itemdata, last_updated, query>>
vars == <<op, pc, ret, n_retries, requests, warnings,
          hs_live, hs_target, hs_response, hs_data, hs_attrs,
          rt_live, user_agent, endpoint, rt_response, mapping_json,
          item_name_map, item_id_map, rt_json, itemdata, last_updated, query>>

-----------------------------------------------------------------------------
(* Bounds of the model *)

\* document values are -1 (the unranked sentinel) and 1..MaxValue
MaxValue == 1
\* the mapping document lists at most MaxMapLen items
MaxMapLen == 2
\* prices are 1..MaxPrice
MaxPrice == 2
\* a query has at most MaxQueryLen characters
MaxQueryLen == 2

-----------------------------------------------------------------------------
(* Python values *)

NoValue == [json |-> "none"]
Undecodable == [json |-> "undecodable"]
NoResponse == [status |-> 0, body |-> NoValue]

Returned(v) == [kind |-> "return", exc |-> "", val |-> v, status |-> 0]
Raised(e, what) == [kind |-> "raise", exc |-> e, val |-> what, status |-> 0]
RaisedStatus(e, what, s) == [kind |-> "raise", exc |-> e, val |-> what, status |-> s]
NoRet == [kind |-> "none", exc |-> "", val |-> "", status |-> 0]

-----------------------------------------------------------------------------
(* resources/entries.py: the canonical tables, cut down to two skills, one *)
(* activity and one boss                                                   *)

skill_attributes == <<"overall", "attack">>
activity_attributes == <<"league_points">>
boss_attributes == <<"abyssal_sire">>
n_skills == Len(skill_attributes)
n_activities == Len(activity_attributes)
n_bosses == Len(boss_attributes)
entries_dict ==
    [n \in {"Overall", "Attack", "League Points", "Abyssal Sire"} |->
        CASE n = "Overall" -> "overall"
          [] n = "Attack" -> "attack"
          [] n = "League Points" -> "league_points"
          [] n = "Abyssal Sire" -> "abyssal_sire"]

Range(s) == {s[i] : i \in DOMAIN s}
AttrKeys == Range(skill_attributes) \cup Range(activity_attributes)
                \cup Range(boss_attributes)

-----------------------------------------------------------------------------
(* resources/url_builder.py *)

ValidTargets == {"default", "ironman", "ultimate", "hardcore_ironman", "seasonal",
                 "deadman", "tournament", "fresh_start", "skiller", "skiller_defence"}

\* _parse_target: the slug of a target, or the ValueError it raises
_parse_target(target) ==
    CASE target = "default" -> [ok |-> TRUE, slug |-> "hiscore_oldschool"]
      [] target = "ironman" -> [ok |-> TRUE, slug |-> "hiscore_oldschool_ironman"]
      [] target = "ultimate" -> [ok |-> TRUE, slug |-> "hiscore_oldschool_ultimate"]
      [] target = "hardcore_ironman" ->
            [ok |-> TRUE, slug |-> "hiscore_oldschool_hardcore_ironman"]
      [] target = "seasonal" -> [ok |-> TRUE, slug |-> "hiscore_oldschool_seasonal"]
      [] target = "deadman" -> [ok |-> TRUE, slug |-> "hiscore_oldschool_deadman"]
      [] target = "tournament" -> [ok |-> TRUE, slug |-> "hiscore_oldschool_tournament"]
      [] target = "fresh_start" -> [ok |-> TRUE, slug |-> "hiscore_oldschool_fresh_start"]
      [] target = "skiller" -> [ok |-> TRUE, slug |-> "hiscore_oldschool_skiller"]
      [] target = "skiller_defence" ->
            [ok |-> TRUE, slug |-> "hiscore_oldschool_skiller_defence"]
      [] OTHER -> [ok |-> FALSE, slug |-> ""]

build_url(target) == _parse_target(target)

-----------------------------------------------------------------------------
(* The documents the highscores endpoint may answer with *)

DocValues == {-1} \cup (1..MaxValue)

SkillNames == <<"Overall", "Attack">>
ActivityNames == <<"League Points", "Abyssal Sire">>

SkillJson(name, v) == [name |-> name, rank |-> v, level |-> 2 * v, xp |-> 3 * v]
ActivityJson(name, v) == [name |-> name, rank |-> v, score |-> 5 * v]

Without(s, p) == [i \in 1..(Len(s) - 1) |-> IF i < p THEN s[i] ELSE s[i + 1]]
Replace(s, p, e) == [s EXCEPT ![p] = e]
DropField(e, f) == [k \in (DOMAIN e) \ {f} |-> e[k]]

SkillsFull(v) == [i \in 1..Len(SkillNames) |-> SkillJson(SkillNames[i], v)]
ActivitiesFull(v) == [i \in 1..Len(ActivityNames) |-> ActivityJson(ActivityNames[i], v)]

SkillArrays(v) ==
    LET full == SkillsFull(v) IN
    { full,
      Without(full, Len(full)),                              \* last entry omitted
      Without(full, 1),                                      \* first entry omitted
      Replace(full, 1, SkillJson("Sailing", v)),             \* unrecognized name
      Replace(full, Len(full), SkillJson("Sailing", v)),
      Append(full, SkillJson("Sailing", v)),                 \* a new skill added
      Replace(full, Len(full), DropField(full[Len(full)], "xp")),
      Replace(full, 1, DropField(full[1], "name")) }

ActivityArrays(v) ==
    LET full == ActivitiesFull(v) IN
    { full,
      Without(full, Len(full)),
      Without(full, 1),
      Replace(full, 1, ActivityJson("Yama", v)),
      Replace(full, Len(full), ActivityJson("Yama", v)),
      Append(full, ActivityJson("Yama", v)),
      <<ActivityJson("Yama", v)>> \o full,                   \* a new activity in front
      Replace(full, Len(full), DropField(full[Len(full)], "score")) }

Doc(s, a) == [json |-> "object", skills |-> s, activities |-> a]

Docs ==
    UNION { {Doc(s, ActivitiesFull(v)) : s \in SkillArrays(v)}
            \cup {Doc(SkillsFull(v), a) : a \in ActivityArrays(v)}
            \cup {Doc(<<>>, <<>>)} : v \in DocValues }

HsStatuses == {200, 404, 500}

HsResponses ==
    {[status |-> 200, body |-> b] : b \in Docs \cup {Undecodable}}
    \cup {[status |-> s, body |-> b] :
            s \in HsStatuses, b \in {Undecodable, Doc(SkillsFull(1), ActivitiesFull(1))}}

-----------------------------------------------------------------------------
(* highscores.py: the entry classes *)

\* SkillEntry.__init__: ok is FALSE when a data[...] lookup raises KeyError
SkillEntry(data) ==
    IF {"rank", "level", "xp"} \subseteq DOMAIN data
    THEN [ok |-> TRUE,
          entry |-> [kind |-> "skill", rank |-> data.rank, level |-> data.level,
                     xp |-> data.xp]]
    ELSE [ok |-> FALSE, entry |-> [kind |-> "unset"]]

ActivityEntry(data) ==
    IF {"rank", "score"} \subseteq DOMAIN data
    THEN [ok |-> TRUE,
          entry |-> [kind |-> "activity", rank |-> data.rank, score |-> data.score]]
    ELSE [ok |-> FALSE, entry |-> [kind |-> "unset"]]

BossEntry(data) ==
    IF {"rank", "score"} \subseteq DOMAIN data
    THEN [ok |-> TRUE,
          entry |-> [kind |-> "boss", rank |-> data.rank, kc |-> data.score]]
    ELSE [ok |-> FALSE, entry |-> [kind |-> "unset"]]

Unset == [kind |-> "unset"]
NoAttrs == [k \in AttrKeys |-> Unset]

-----------------------------------------------------------------------------
(* highscores.py: Highscores._parse_data.  A parse state st carries the     *)
(* attributes set so far, the warnings emitted and the exception raised.   *)

\* the warning a KeyError is turned into
Warning(label, e, id) == [kind |-> label, name |-> e.name, id |-> id]

\* one try/except of a loop body: self.__setattr__(entries_dict[name], made),
\* or the except KeyError branch, whose message reads e["name"] again
StoreEntry(st, e, label, id, made) ==
    IF "name" \notin DOMAIN e
    THEN [st EXCEPT !.exc = "KeyError"]
    ELSE IF e.name \notin DOMAIN entries_dict \/ ~made.ok
         THEN [st EXCEPT !.warnings = Append(@, Warning(label, e, id))]
         ELSE [st EXCEPT !.attrs[entries_dict[e.name]] = made.entry]

\* for i in range(len(data["skills"]))
RECURSIVE ParseSkills(_, _, _)
ParseSkills(st, data, i) ==
    IF st.exc # "" \/ i >= Len(data.skills)
    THEN st
    ELSE ParseSkills(StoreEntry(st, data.skills[i + 1], "Skill", i,
                                SkillEntry(data.skills[i + 1])), data, i + 1)

\* for i in range(len(activity_attributes))
RECURSIVE ParseActivities(_, _, _)
ParseActivities(st, data, i) ==
    IF st.exc # "" \/ i >= Len(activity_attributes)
    THEN st
    ELSE IF i >= Len(data.activities)
         THEN [st EXCEPT !.exc = "IndexError"]
         ELSE ParseActivities(StoreEntry(st, data.activities[i + 1], "Activity", i,
                                         ActivityEntry(data.activities[i + 1])),
                              data, i + 1)

\* for i in range(len(boss_attributes)): idx = len(activity_attributes) + i
RECURSIVE ParseBosses(_, _, _)
ParseBosses(st, data, i) ==
    LET idx == Len(activity_attributes) + i IN
    IF st.exc # "" \/ i >= Len(boss_attributes)
    THEN st
    ELSE IF idx >= Len(data.activities)
         THEN [st EXCEPT !.exc = "IndexError"]
         ELSE ParseBosses(StoreEntry(st, data.activities[idx + 1], "Boss", idx,
                                     BossEntry(data.activities[idx + 1])),
                          data, i + 1)

_parse_data(attrs, data) ==
    ParseBosses(
        ParseActivities(
            ParseSkills([attrs |-> attrs, warnings |-> <<>>, exc |-> ""], data, 0),
            data, 0),
        data, 0)

-----------------------------------------------------------------------------
(* highscores.py: the accessors.  A call either returns a list or raises    *)
(* AttributeError: the attribute was never set, or the entry stored under  *)
(* it has no such field.                                                   *)

AttributeError == [ok |-> FALSE, val |-> <<>>]

AtLeast(v, floor) == IF v <= floor THEN floor ELSE v

\* [floor(self.__getattribute__(keys[i]).field) for i in range(n)]
Column(attrs, keys, n, field, floor) ==
    IF \E i \in 1..n : field \notin DOMAIN attrs[keys[i]]
    THEN AttributeError
    ELSE [ok |-> TRUE, val |-> [i \in 1..n |-> AtLeast(attrs[keys[i]][field], floor)]]

get_all_scores(attrs) ==
    LET xp == Column(attrs, skill_attributes, Len(skill_attributes), "xp", 0)
        score == Column(attrs, activity_attributes, Len(activity_attributes), "score", 0)
        kc == Column(attrs, boss_attributes, Len(boss_attributes), "kc", 0)
    IN  IF xp.ok /\ score.ok /\ kc.ok
        THEN [ok |-> TRUE, val |-> xp.val \o score.val \o kc.val]
        ELSE AttributeError

get_all_levels(attrs) == Column(attrs, skill_attributes, n_skills, "level", 1)
get_all_xp(attrs) == Column(attrs, skill_attributes, n_skills, "xp", 0)
get_all_activity_scores(attrs) ==
    Column(attrs, activity_attributes, n_activities, "score", 0)
get_all_kc(attrs) == Column(attrs, boss_attributes, n_bosses, "kc", 0)

-----------------------------------------------------------------------------
(* highscores.py: Highscores.__init__, update and _fetch_data *)

hs_max_retries_Four == 5 - 1
hs_max_retries == 5

\* _fetch_data: the status that sends the loop round again
HsRetry(status) == status = 404

\* json.loads(self._response.content.decode('utf-8'))
JsonLoads(body) ==
    IF body.json \in {"object", "array"} THEN [ok |-> TRUE, doc |-> body]
    ELSE [ok |-> FALSE, doc |-> NoValue]

HsOps == {"Highscores", "update"}
RtOps == {"LatestRTPriceChecker", "AverageRTPriceChecker", "rt_update",
          "get_price_info"}

\* Highscores(rsn, target): a new object; build_url raises before any request
\* when the target is not one of the ten
HighscoresInit(target) ==
    /\ pc = "done"
    /\ ~hs_live
    /\ op \notin RtOps
    /\ op' = "Highscores"
    /\ hs_target' = target
    /\ hs_response' = NoResponse
    /\ hs_data' = NoValue
    /\ hs_attrs' = NoAttrs
    /\ n_retries' = 0
    /\ requests' = <<>>
    /\ warnings' = <<>>
    /\ IF build_url(target).ok
       THEN pc' = "fetch" /\ ret' = NoRet
       ELSE pc' = "done" /\ ret' = Raised("ValueError", "invalid target")
    /\ UNCHANGED hs_live
    /\ UNCHANGED rtVars

\* hs.update() on a constructed object
HighscoresUpdate ==
    /\ pc = "done"
    /\ hs_live
    /\ op' = "update"
    /\ pc' = "fetch"
    /\ ret' = NoRet
    /\ n_retries' = 0
    /\ requests' = <<>>
    /\ warnings' = <<>>
    /\ UNCHANGED <<hs_live, hs_target, hs_response, hs_data, hs_attrs>>
    /\ UNCHANGED rtVars

\* one round of the while loop of _fetch_data and, when it returns, the
\* _parse_data call that __init__ and update make on its result
HsRequest(resp) ==
    /\ pc = "fetch"
    /\ op \in HsOps
    /\ requests' = Append(requests, [url |-> build_url(hs_target).slug,
                                     status |-> resp.status])
    /\ hs_response' = resp
    /\ IF HsRetry(resp.status)
       THEN /\ n_retries' = n_retries + 1
            /\ IF n_retries + 1 > hs_max_retries
               THEN pc' = "done" /\ ret' = Raised("ValueError", "data not found")
               ELSE pc' = "fetch" /\ ret' = ret
            /\ UNCHANGED <<hs_data, hs_attrs, hs_live, warnings>>
       ELSE /\ n_retries' = n_retries
            /\ pc' = "done"
            /\ IF ~JsonLoads(resp.body).ok
               THEN /\ ret' = Raised("JSONDecodeError", "body")
                    /\ UNCHANGED <<hs_data, hs_attrs, hs_live, warnings>>
               ELSE LET data == JsonLoads(resp.body).doc
                        st == _parse_data(hs_attrs, data)
                    IN  /\ hs_data' = data
                        /\ hs_attrs' = st.attrs
                        /\ warnings' = st.warnings
                        /\ ret' = IF st.exc = "" THEN Returned("None")
                                  ELSE Raised(st.exc, "parse")
                        /\ hs_live' = (hs_live \/ st.exc = "")
    /\ UNCHANGED <<op, hs_target>>
    /\ UNCHANGED rtVars

-----------------------------------------------------------------------------
(* resources/utils.py: is_ironman *)

probe_max_retries == 5

ProbeRetry_Only404(status) == status = 404
\* _query_hs: the status that sends the loop round again
ProbeRetry(status) == status > 399

IsIronmanResult_AlwaysTrue(at) == "True"
\* is_ironman: the value returned once the _query_hs call at pc has returned
IsIronmanResult(at) == IF at = "probe_ironman" THEN "True" ELSE "False"

\* the endpoint argument of the _query_hs call in progress
ProbeEndpoint == IF pc = "probe_ironman" THEN "ironman" ELSE "default"

\* is_ironman(rsn): the call starts with _query_hs(rsn, 'ironman').  The
\* probe neither reads nor writes a snapshot object, so the caller is taken
\* to make its probes before it builds one.
IsIronman ==
    /\ pc = "done"
    /\ op \in {"none", "is_ironman"}
    /\ op' = "is_ironman"
    /\ pc' = "probe_ironman"
    /\ ret' = NoRet
    /\ n_retries' = 0
    /\ requests' = <<>>
    /\ warnings' = <<>>
    /\ UNCHANGED hsVars
    /\ UNCHANGED rtVars

\* one round of the while loop of _query_hs and, when it returns or raises,
\* the try/except of is_ironman around it
ProbeRequest(status) ==
    /\ pc \in {"probe_ironman", "probe_default"}
    /\ op = "is_ironman"
    /\ requests' = Append(requests, [url |-> build_url(ProbeEndpoint).slug,
                                     status |-> status])
    /\ IF ProbeRetry(status)
       THEN IF n_retries + 1 > probe_max_retries
            THEN IF pc = "probe_ironman"
                 THEN \* except ValueError: _query_hs(rsn)
                      /\ n_retries' = 0
                      /\ pc' = "probe_default"
                      /\ ret' = ret
                 ELSE \* except ValueError: raise ValueError(player not found)
                      /\ n_retries' = n_retries + 1
                      /\ pc' = "done"
                      /\ ret' = Raised("ValueError", "player not found")
            ELSE /\ n_retries' = n_retries + 1
                 /\ pc' = pc
                 /\ ret' = ret
       ELSE /\ n_retries' = n_retries
            /\ pc' = "done"
            /\ ret' = Returned(IsIronmanResult(pc))
    /\ UNCHANGED <<op, warnings>>
    /\ UNCHANGED hsVars
    /\ UNCHANGED rtVars

-----------------------------------------------------------------------------
(* Python strings, as sequences of characters, and dicts, as sequences of  *)
(* [key, val] in insertion order                                           *)

Chars == {"0", "1", "d", "D"}
Digits == <<"0", "1", "2", "3", "4", "5", "6", "7", "8", "9">>
IsDigit(c) == \E i \in 1..Len(Digits) : Digits[i] = c
DigitValue(c) == (CHOOSE i \in 1..Len(Digits) : Digits[i] = c) - 1

\* str.lower()
LowerChar(c) == IF c = "D" THEN "d" ELSE c
Lower(str) == [i \in 1..Len(str) |-> LowerChar(str[i])]

\* str.startswith(prefix)
StartsWith(str, prefix) ==
    Len(prefix) <= Len(str) /\ SubSeq(str, 1, Len(prefix)) = prefix

RECURSIVE DigitsValue(_)
DigitsValue(ds) ==
    IF ds = <<>> THEN 0
    ELSE 10 * DigitsValue(SubSeq(ds, 1, Len(ds) - 1)) + DigitValue(ds[Len(ds)])

\* int(str): an optional sign and one or more digits, or ValueError
int(str) ==
    LET signed == str # <<>> /\ str[1] \in {"-", "+"}
        ds == IF signed THEN Tail(str) ELSE str
    IN  IF ds # <<>> /\ \A i \in 1..Len(ds) : IsDigit(ds[i])
        THEN [ok |-> TRUE,
              val |-> IF signed /\ str[1] = "-" THEN 0 - DigitsValue(ds)
                      ELSE DigitsValue(ds)]
        ELSE [ok |-> FALSE, val |-> 0]

\* str(int)
RECURSIVE Str(_)
Str(n) ==
    IF n < 0 THEN <<"-">> \o Str(0 - n)
    ELSE IF n < 10 THEN <<Digits[n + 1]>>
         ELSE Str(n \div 10) \o <<Digits[(n % 10) + 1]>>

DictHas(d, k) == \E i \in 1..Len(d) : d[i].key = k
DictGet(d, k) == d[CHOOSE i \in 1..Len(d) : d[i].key = k].val
\* d[k] = v: a new key goes last, a known key keeps its place
DictSet(d, k, v) ==
    IF DictHas(d, k)
    THEN [i \in 1..Len(d) |-> IF d[i].key = k THEN [key |-> k, val |-> v] ELSE d[i]]
    ELSE Append(d, [key |-> k, val |-> v])
DictKeys(d) == {d[i].key : i \in 1..Len(d)}

-----------------------------------------------------------------------------
(* The documents the pricing endpoints may answer with *)

MapEntries ==
    { [id |-> 1, name |-> <<"D">>],
      [id |-> 10, name |-> <<"d">>],
      [id |-> 10, name |-> <<"d", "1">>],
      [id |-> 1, name |-> <<"0", "d">>] }

RECURSIVE SeqsUpTo(_, _)
SeqsUpTo(S, n) ==
    IF n = 0 THEN {<<>>}
    ELSE LET shorter == SeqsUpTo(S, n - 1)
         IN  shorter \cup {Append(q, x) : q \in shorter, x \in S}

MappingDocs == {[json |-> "array", items |-> m] : m \in SeqsUpTo(MapEntries, MaxMapLen)}

Prices == 1..MaxPrice
PriceIds == <<Str(1), Str(10)>>

LatestJson(v) == [high |-> v, low |-> v - 1, highTime |-> 10 * v, lowTime |-> 10 * v + 1]
AverageJson(v) ==
    [avgHighPrice |-> v, avgLowPrice |-> v - 1,
     highPriceVolume |-> 10 * v, lowPriceVolume |-> 10 * v + 1]
PriceJson(e, v) == IF e = "latest" THEN LatestJson(v) ELSE AverageJson(v)

\* the well-formed "data" objects at one price: every subset of the ids
GoodData(e, v) ==
    { <<>>,
      <<[key |-> PriceIds[1], val |-> PriceJson(e, v)]>>,
      <<[key |-> PriceIds[2], val |-> PriceJson(e, v)]>>,
      <<[key |-> PriceIds[1], val |-> PriceJson(e, v)],
        [key |-> PriceIds[2], val |-> PriceJson(e, v)]>> }

\* the "data" objects: the well-formed ones, and one whose second entry
\* lacks a field
DataObjects(e) ==
    UNION { GoodData(e, v)
            \cup { <<[key |-> PriceIds[1], val |-> PriceJson(e, v)],
                     [key |-> PriceIds[2], val |-> [high |-> v, avgHighPrice |-> v]]>> }
            : v \in Prices }

PriceDocs(e) == {[json |-> "object", data |-> d] : d \in DataObjects(e)}
NoDataDoc == [json |-> "object"]

RtStatuses == {200, 400, 500}

\* the mapping documents served while a checker is being built
ServedMappings ==
    { [json |-> "array", items |-> <<>>],
      [json |-> "array", items |-> <<[id |-> 1, name |-> <<"D">>]>>],
      [json |-> "array", items |-> <<[id |-> 10, name |-> <<"d", "1">>],
                                     [id |-> 1, name |-> <<"D">>]>>] }

MappingResponses ==
    {[status |-> 200, body |-> b] : b \in ServedMappings \cup {Undecodable}}
    \cup {[status |-> s, body |-> Undecodable] : s \in RtStatuses}
    \cup {[status |-> 500, body |-> [json |-> "array", items |-> <<>>]]}

PriceResponses(e) ==
    {[status |-> 200, body |-> b] : b \in PriceDocs(e) \cup {Undecodable, NoDataDoc}}
    \cup {[status |-> s, body |-> Undecodable] : s \in RtStatuses}
    \cup {[status |-> 500, body |-> [json |-> "object", data |-> <<>>]]}

-----------------------------------------------------------------------------
(* realtimeprices.py: the lookups *)

\* _get_price_info_from_id: self.itemdata[item_id]
_get_price_info_from_id(data, item_id) ==
    IF DictHas(data, item_id)
    THEN [kind |-> "return", exc |-> "", val |-> "item", status |-> 0,
          item |-> DictGet(data, item_id)]
    ELSE Raised("KeyError", "itemdata")

\* _get_item_id: the first key, in the order of the dict, that starts with
\* the lowercased query; found is FALSE for the -1 it returns otherwise
RECURSIVE ScanNames(_, _, _)
ScanNames(names, q, i) ==
    IF i > Len(names) THEN [found |-> FALSE, id |-> <<>>]
    ELSE IF StartsWith(names[i].key, q) THEN [found |-> TRUE, id |-> names[i].val]
         ELSE ScanNames(names, q, i + 1)

_get_item_id_NoLower(names, str) == ScanNames(names, str, 1)
_get_item_id(names, str) == ScanNames(names, Lower(str), 1)

_get_price_info_from_string(names, data, str) ==
    LET item_id == _get_item_id(names, str) IN
    IF ~item_id.found THEN Raised("KeyError", "no id found")
    ELSE _get_price_info_from_id(data, item_id.id)

\* get_price_info: except ValueError catches the failure of int(query) only
get_price_info_CatchAll(names, data, str) ==
    IF int(str).ok /\ _get_price_info_from_id(data, Str(int(str).val)).kind = "return"
    THEN _get_price_info_from_id(data, Str(int(str).val))
    ELSE _get_price_info_from_string(names, data, str)
get_price_info(names, data, str) ==
    IF int(str).ok
    THEN _get_price_info_from_id(data, Str(int(str).val))
    ELSE _get_price_info_from_string(names, data, str)

-----------------------------------------------------------------------------
(* realtimeprices.py: _build_item_maps and _process_data *)

\* the loop over mapping_json, for item_name_map
RECURSIVE BuildNameMap(_, _, _)
BuildNameMap(names, items, i) ==
    IF i > Len(items) THEN names
    ELSE BuildNameMap(DictSet(names, Lower(items[i].name), Str(items[i].id)),
                      items, i + 1)

\* the loop over mapping_json, for item_id_map
RECURSIVE BuildIdMap(_, _, _)
BuildIdMap(ids, items, i) ==
    IF i > Len(items) THEN ids
    ELSE BuildIdMap(DictSet(ids, Str(items[i].id), items[i].name), items, i + 1)

\* LatestRTPriceInfo(key, high, low, highTime, lowTime)
LatestRTPriceInfo(key, e) ==
    IF {"high", "low", "highTime", "lowTime"} \subseteq DOMAIN e
    THEN [ok |-> TRUE,
          info |-> [item_id |-> key, high |-> e.high, low |-> e.low,
                    high_time |-> e.highTime, low_time |-> e.lowTime]]
    ELSE [ok |-> FALSE, info |-> [item_id |-> key]]

\* AverageRTPriceInfo(key, avgHighPrice, avgLowPrice, endpoint, volumes)
AverageRTPriceInfo(key, e, period) ==
    IF {"avgHighPrice", "avgLowPrice", "highPriceVolume", "lowPriceVolume"}
           \subseteq DOMAIN e
    THEN [ok |-> TRUE,
          info |-> [item_id |-> key, high |-> e.avgHighPrice, low |-> e.avgLowPrice,
                    time_period |-> period,
                    high_price_volume |-> e.highPriceVolume,
                    low_price_volume |-> e.lowPriceVolume]]
    ELSE [ok |-> FALSE, info |-> [item_id |-> key]]

PriceInfo(e, key, entry) ==
    IF e = "latest" THEN LatestRTPriceInfo(key, entry)
    ELSE AverageRTPriceInfo(key, entry, e)

\* _process_data: for key in data: self.itemdata[key] = ...; a missing field
\* raises KeyError with the earlier keys already stored
RECURSIVE ProcessEntries(_, _, _, _)
ProcessEntries(st, e, data, i) ==
    IF st.exc # "" \/ i > Len(data) THEN st
    ELSE LET made == PriceInfo(e, data[i].key, data[i].val) IN
         IF made.ok
         THEN ProcessEntries([st EXCEPT !.itemdata = DictSet(@, data[i].key, made.info)],
                             e, data, i + 1)
         ELSE [st EXCEPT !.exc = "KeyError"]

_process_data(items, e, data) ==
    ProcessEntries([itemdata |-> items, exc |-> ""], e, data, 1)

-----------------------------------------------------------------------------
(* realtimeprices.py: the constructors, update and the two retry loops *)

map_max_retries == 5
price_max_retries == 5

\* _build_item_maps: the status that sends the loop round again
MapRetry(status) == status > 399
PriceRetry_Only404(status) == status = 404
\* _fetch_data: the status that sends the loop round again
PriceRetry(status) == status > 399

NoneUserAgent == "<None>"
Suffix == " via osrs-tools by https://github.com/cdfisher"
valid_time_periods_With24h == {"5m", "1h", "24h"}
valid_time_periods == {"5m", "1h"}

\* BaseRTPriceChecker.__init__ up to the first request of _build_item_maps
BaseInit(cls, ua, e) ==
    /\ op' = cls
    /\ n_retries' = 0
    /\ requests' = <<>>
    /\ warnings' = <<>>
    /\ rt_response' = NoResponse
    /\ mapping_json' = NoValue
    /\ rt_json' = NoValue
    /\ query' = <<>>
    /\ IF ua = NoneUserAgent \/ ua = ""
       THEN /\ pc' = "done"
            /\ ret' = Raised("AssertionError", "user_agent")
            /\ user_agent' = ""
            /\ endpoint' = ""
       ELSE /\ pc' = "fetch_mapping"
            /\ ret' = NoRet
            /\ user_agent' = <<ua, Suffix>>
            /\ endpoint' = e
    /\ itemdata' = <<>>
    /\ last_updated' = "None"
    /\ item_name_map' = <<>>
    /\ item_id_map' = <<>>
    /\ UNCHANGED rt_live
    /\ UNCHANGED hsVars

\* LatestRTPriceChecker(user_agent)
LatestInit(ua) ==
    /\ pc = "done"
    /\ ~rt_live
    /\ op \notin HsOps
    /\ BaseInit("LatestRTPriceChecker", ua, "latest")

\* AverageRTPriceChecker(user_agent, time_period)
AverageInit(ua, time_period) ==
    /\ pc = "done"
    /\ ~rt_live
    /\ op \notin HsOps
    /\ IF time_period \notin valid_time_periods
       THEN /\ op' = "AverageRTPriceChecker"
            /\ pc' = "done"
            /\ ret' = Raised("ValueError", "invalid time period")
            /\ requests' = <<>>
            /\ warnings' = <<>>
            /\ n_retries' = 0
            /\ UNCHANGED rtVars
            /\ UNCHANGED hsVars
       ELSE BaseInit("AverageRTPriceChecker", ua, time_period)

\* one round of the while loop of _build_item_maps; on a decoded answer the
\* two maps are built and the constructor goes on to self.update()
MappingRequest(resp) ==
    /\ pc = "fetch_mapping"
    /\ requests' = Append(requests, [url |-> "mapping"])
    /\ rt_response' = resp
    /\ IF MapRetry(resp.status)
       THEN /\ n_retries' = n_retries + 1
            /\ IF n_retries + 1 > map_max_retries
               THEN /\ pc' = "done"
                    /\ ret' = RaisedStatus("ValueError", "mapping", resp.status)
               ELSE pc' = pc /\ ret' = ret
            /\ UNCHANGED <<mapping_json, item_name_map, item_id_map>>
       ELSE IF ~JsonLoads(resp.body).ok
            THEN /\ pc' = "done"
                 /\ ret' = Raised("JSONDecodeError", "body")
                 /\ n_retries' = n_retries
                 /\ UNCHANGED <<mapping_json, item_name_map, item_id_map>>
            ELSE /\ mapping_json' = resp.body
                 /\ item_name_map' = BuildNameMap(item_name_map, resp.body.items, 1)
                 /\ item_id_map' = BuildIdMap(item_id_map, resp.body.items, 1)
                 /\ pc' = "fetch_prices"
                 /\ n_retries' = 0
                 /\ ret' = ret
    /\ UNCHANGED <<op, warnings, rt_live, user_agent, endpoint, rt_json, itemdata,
                   last_updated, query>>
    /\ UNCHANGED hsVars

PriceUpdate_Rebuild ==
    /\ pc = "done"
    /\ rt_live
    /\ op' = "rt_update"
    /\ pc' = "fetch_mapping"
    /\ ret' = NoRet
    /\ n_retries' = 0
    /\ requests' = <<>>
    /\ warnings' = <<>>
    /\ UNCHANGED rtVars
    /\ UNCHANGED hsVars

\* checker.update() on a constructed checker
PriceUpdate ==
    /\ pc = "done"
    /\ rt_live
    /\ op' = "rt_update"
    /\ pc' = "fetch_prices"
    /\ ret' = NoRet
    /\ n_retries' = 0
    /\ requests' = <<>>
    /\ warnings' = <<>>
    /\ UNCHANGED rtVars
    /\ UNCHANGED hsVars

\* one round of the while loop of _fetch_data and, when it returns, the
\* _process_data call that update makes on its result
PriceRequest(resp) ==
    /\ pc = "fetch_prices"
    /\ requests' = Append(requests, [url |-> endpoint])
    /\ rt_response' = resp
    /\ IF PriceRetry(resp.status)
       THEN /\ n_retries' = n_retries + 1
            /\ IF n_retries + 1 > price_max_retries
               THEN /\ pc' = "done"
                    /\ ret' = RaisedStatus("ValueError", "data", resp.status)
               ELSE pc' = pc /\ ret' = ret
            /\ UNCHANGED <<rt_json, itemdata, last_updated, rt_live>>
       ELSE /\ n_retries' = n_retries
            /\ pc' = "done"
            /\ IF ~JsonLoads(resp.body).ok
               THEN /\ ret' = Raised("JSONDecodeError", "body")
                    /\ UNCHANGED <<rt_json, itemdata, last_updated, rt_live>>
               ELSE IF "data" \notin DOMAIN resp.body
                    THEN /\ ret' = Raised("KeyError", "data")
                         /\ UNCHANGED <<rt_json, itemdata, last_updated, rt_live>>
                    ELSE LET st == _process_data(itemdata, endpoint, resp.body.data)
                         IN  /\ rt_json' = resp.body.data
                             /\ itemdata' = st.itemdata
                             /\ last_updated' = IF st.exc = "" THEN "now"
                                                ELSE last_updated
                             /\ ret' = IF st.exc = "" THEN Returned("None")
                                       ELSE Raised(st.exc, "process")
                             /\ rt_live' = (rt_live \/ st.exc = "")
    /\ UNCHANGED <<op, warnings, user_agent, endpoint, mapping_json, item_name_map,
                   item_id_map, query>>
    /\ UNCHANGED hsVars

\* checker.get_price_info(str) on a constructed checker
GetPriceInfo(str) ==
    /\ pc = "done"
    /\ rt_live
    /\ op' = "get_price_info"
    /\ query' = str
    /\ ret' = get_price_info(item_name_map, itemdata, str)
    /\ n_retries' = 0
    /\ requests' = <<>>
    /\ warnings' = <<>>
    /\ UNCHANGED <<pc, rt_live, user_agent, endpoint, rt_response, mapping_json,
                   item_name_map, item_id_map, rt_json, itemdata, last_updated>>
    /\ UNCHANGED hsVars

-----------------------------------------------------------------------------
(* The caller.  The components share nothing, so one run follows the     *)
(* highscores side (probes, then a Highscores object) or a price checker. *)

TargetInputs == {"default", "skiller_defence", "bogus"}

Init ==
    /\ op = "none"
    /\ pc = "done"
    /\ ret = NoRet
    /\ n_retries = 0
    /\ requests = <<>>
    /\ warnings = <<>>
    /\ hs_live = FALSE
    /\ hs_target = "default"
    /\ hs_response = NoResponse
    /\ hs_data = NoValue
    /\ hs_attrs = NoAttrs
    /\ rt_live = FALSE
    /\ user_agent = ""
    /\ endpoint = ""
    /\ rt_response = NoResponse
    /\ mapping_json = NoValue
    /\ item_name_map = <<>>
    /\ item_id_map = <<>>
    /\ rt_json = NoValue
    /\ itemdata = <<>>
    /\ last_updated = "None"
    /\ query = <<>>

Next ==
    \/ \E target \in TargetInputs : HighscoresInit(target)
    \/ HighscoresUpdate
    \/ \E resp \in HsResponses : HsRequest(resp)
    \/ IsIronman
    \/ \E status \in HsStatuses : ProbeRequest(status)

Spec == Init /\ [][Next]_vars

UserAgents == {NoneUserAgent, "", "app"}
TimePeriods == {"5m", "1h", "24h"}
Queries == SeqsUpTo(Chars, MaxQueryLen)

\* a caller that builds a price checker and refreshes it
NextPrices ==
    \/ \E ua \in UserAgents : LatestInit(ua)
    \/ \E ua \in UserAgents, period \in TimePeriods : AverageInit(ua, period)
    \/ \E resp \in MappingResponses : MappingRequest(resp)
    \/ PriceUpdate
    \/ \E resp \in PriceResponses(endpoint) : PriceRequest(resp)

SpecPrices == Init /\ [][NextPrices]_vars

\* a caller that uses the Highscores side or the price side of the package
NextAll ==
    \/ Next
    \/ NextPrices

SpecAll == Init /\ [][NextAll]_vars

\* a checker as LatestRTPriceChecker("app") leaves it, built from one
\* mapping document and one price document, each answered at once with 200
InitLookup ==
    \E mapping \in MappingDocs, data \in GoodData("latest", 1) :
        /\ op = "LatestRTPriceChecker"
        /\ pc = "done"
        /\ ret = Returned("None")
        /\ n_retries = 0
        /\ requests = <<[url |-> "mapping"], [url |-> "latest"]>>
        /\ warnings = <<>>
        /\ hs_live = FALSE
        /\ hs_target = "default"
        /\ hs_response = NoResponse
        /\ hs_data = NoValue
        /\ hs_attrs = NoAttrs
        /\ rt_live = TRUE
        /\ user_agent = <<"app", Suffix>>
        /\ endpoint = "latest"
        /\ rt_response = [status |-> 200, body |-> [json |-> "object", data |-> data]]
        /\ mapping_json = mapping
        /\ item_name_map = BuildNameMap(<<>>, mapping.items, 1)
        /\ item_id_map = BuildIdMap(<<>>, mapping.items, 1)
        /\ rt_json = data
        /\ itemdata = _process_data(<<>>, "latest", data).itemdata
        /\ last_updated = "now"
        /\ query = <<>>

\* a caller that queries a built checker
NextLookup == \E str \in Queries : GetPriceInfo(str)

SpecLookup == InitLookup /\ [][NextLookup]_vars

-----------------------------------------------------------------------------
(* Reading the exchanges of a call *)

NReq == Len(requests)
LastStatus == requests[NReq].status
NotFound == Raised("ValueError", "data not found")

\* the exchanges of the call with one endpoint, in order
RECURSIVE ExchangesWith(_, _)
ExchangesWith(log, url) ==
    IF log = <<>> THEN <<>>
    ELSE IF Head(log).url = url
         THEN <<Head(log)>> \o ExchangesWith(Tail(log), url)
         ELSE ExchangesWith(Tail(log), url)

IronmanUrl == "hiscore_oldschool_ironman"
DefaultUrl == "hiscore_oldschool"

\* a _query_hs call as seen on the wire: it raised after six failing
\* responses, or returned on its first response below 400
QueryFailed(q) == Len(q) = 6 /\ \A i \in 1..6 : q[i].status >= 400
QueryReturned(q) ==
    /\ Len(q) \in 1..6
    /\ q[Len(q)].status < 400
    /\ \A i \in 1..(Len(q) - 1) : q[i].status >= 400

\* every entry of the document that names a canonical entry and has its
\* fields is stored under its attribute key, as read by the loop that scans it
BuiltFrom(attrs, data) ==
    /\ \A i \in 1..Len(data.skills) :
          LET e == data.skills[i] IN
          ("name" \in DOMAIN e /\ e.name \in DOMAIN entries_dict /\ SkillEntry(e).ok)
              => attrs[entries_dict[e.name]] = SkillEntry(e).entry
    /\ \A i \in 1..n_activities :
          LET e == data.activities[i] IN
          ("name" \in DOMAIN e /\ e.name \in DOMAIN entries_dict /\ ActivityEntry(e).ok)
              => attrs[entries_dict[e.name]] = ActivityEntry(e).entry
    /\ \A i \in (n_activities + 1)..(n_activities + n_bosses) :
          LET e == data.activities[i] IN
          ("name" \in DOMAIN e /\ e.name \in DOMAIN entries_dict /\ BossEntry(e).ok)
              => attrs[entries_dict[e.name]] = BossEntry(e).entry

-----------------------------------------------------------------------------
(* C1 *)

\* C1 as stated: a Highscores fetch whose request k+1 is answered with a
\* status other than 404 always succeeds.
C1_NonNotFoundSucceeds ==
    (op \in HsOps /\ pc = "done" /\ NReq > 0 /\ LastStatus # 404)
        => ret.kind = "return"

\* C1 as amended: six 404 answers end the fetch with the not-found error
\* after exactly six requests; k <= 5 answers of 404 followed by another
\* status end it after exactly k+1 requests, the body of request k+1 is the
\* one decoded, and the call returns with the snapshot built from that body
\* unless decoding or parsing that body raises.
C1_FetchBoundedBy404 ==
    op \in HsOps =>
        /\ NReq <= 6
        /\ \A i \in 1..(NReq - 1) : requests[i].status = 404
        /\ pc = "fetch" => (NReq <= 5 /\ (NReq > 0 => LastStatus = 404))
        /\ (pc = "done" /\ NReq > 0) =>
              /\ hs_response.status = LastStatus
              /\ IF LastStatus = 404
                 THEN NReq = 6 /\ ret = NotFound
                 ELSE /\ ret # NotFound
                      /\ IF JsonLoads(hs_response.body).ok
                         THEN /\ hs_data = hs_response.body
                              /\ ret.exc # "JSONDecodeError"
                              /\ ret.kind = "return" => BuiltFrom(hs_attrs, hs_data)
                         ELSE ret = Raised("JSONDecodeError", "body")

\* four 404 answers, then a 200 whose body becomes the snapshot
C1_Witness ==
    /\ op = "Highscores" /\ pc = "done" /\ ret.kind = "return"
    /\ NReq = 5 /\ LastStatus = 200
    /\ hs_data = Doc(SkillsFull(1), ActivitiesFull(1))
    /\ get_all_xp(hs_attrs).ok

-----------------------------------------------------------------------------
(* C2 *)

\* C2: is_ironman returns True when the ironman query returns, False when
\* the ironman query raises and the default query returns, and raises
\* player-not-found when both raise; the default endpoint is requested only
\* after the ironman query has raised.
C2_IsIronmanOutcome ==
    op = "is_ironman" =>
        LET iron == ExchangesWith(requests, IronmanUrl)
            dflt == ExchangesWith(requests, DefaultUrl)
        IN  /\ requests = iron \o dflt
            /\ dflt # <<>> => QueryFailed(iron)
            /\ pc = "probe_default" => QueryFailed(iron)
            /\ pc = "done" =>
                  /\ ret = Returned("True") <=> (QueryReturned(iron) /\ dflt = <<>>)
                  /\ ret = Returned("False") <=> (QueryFailed(iron) /\ QueryReturned(dflt))
                  /\ ret = Raised("ValueError", "player not found")
                        <=> (QueryFailed(iron) /\ QueryFailed(dflt))
                  /\ ret.kind \in {"return", "raise"}

\* the ironman query raised after six 404 answers and the default query
\* returned: the player is reported as not an ironman
C2_Witness ==
    /\ op = "is_ironman" /\ pc = "done" /\ ret = Returned("False")
    /\ NReq = 7
    /\ \A i \in 1..6 : requests[i] = [url |-> IronmanUrl, status |-> 404]
    /\ requests[7] = [url |-> DefaultUrl, status |-> 200]

-----------------------------------------------------------------------------
(* C3 *)

\* the call fetched and decoded a document
Fetched ==
    /\ op \in HsOps /\ pc = "done" /\ NReq > 0 /\ LastStatus # 404
    /\ JsonLoads(hs_response.body).ok

\* a document that leaves entries out and is otherwise as published: every
\* entry it has carries a canonical name of its array and all of its fields
OmitsOnly(doc) ==
    /\ \A i \in 1..Len(doc.skills) :
          LET e == doc.skills[i] IN
          "name" \in DOMAIN e /\ e.name \in Range(SkillNames) /\ SkillEntry(e).ok
    /\ \A i \in 1..Len(doc.activities) :
          LET e == doc.activities[i] IN
          "name" \in DOMAIN e /\ e.name \in Range(ActivityNames) /\ ActivityEntry(e).ok

Named(array, name) == \E i \in 1..Len(array) : array[i].name = name

\* C3: whatever entries the fetched document omits, the call returns and the
\* accessors return vectors of the canonical lengths, an omitted skill
\* reading as level 1 and 0 xp.
C3_FixedLengthVectors ==
    (Fetched /\ OmitsOnly(hs_response.body)) =>
        /\ ret.kind = "return"
        /\ get_all_levels(hs_attrs).ok /\ Len(get_all_levels(hs_attrs).val) = n_skills
        /\ get_all_xp(hs_attrs).ok /\ Len(get_all_xp(hs_attrs).val) = n_skills
        /\ get_all_activity_scores(hs_attrs).ok
        /\ Len(get_all_activity_scores(hs_attrs).val) = n_activities
        /\ get_all_kc(hs_attrs).ok /\ Len(get_all_kc(hs_attrs).val) = n_bosses
        /\ get_all_scores(hs_attrs).ok
        /\ Len(get_all_scores(hs_attrs).val) = n_skills + n_activities + n_bosses
        /\ op = "Highscores" =>
              \A i \in 1..n_skills :
                  ~Named(hs_response.body.skills, SkillNames[i]) =>
                      /\ get_all_levels(hs_attrs).val[i] = 1
                      /\ get_all_xp(hs_attrs).val[i] = 0

-----------------------------------------------------------------------------
(* C4 *)

\* every entry of the document carries a name and the fields of its array
AllComplete(doc) ==
    /\ \A i \in 1..Len(doc.skills) :
          "name" \in DOMAIN doc.skills[i] /\ SkillEntry(doc.skills[i]).ok
    /\ \A i \in 1..Len(doc.activities) :
          "name" \in DOMAIN doc.activities[i] /\ ActivityEntry(doc.activities[i]).ok

UnrecognizedIn(array) ==
    {i \in 1..Len(array) : array[i].name \notin DOMAIN entries_dict}

\* C4: a fetched document with entries of unrecognized names makes the call
\* return, emit exactly one warning per such entry, parse the other entries,
\* and leaves every accessor callable.
C4_UnrecognizedSkipped ==
    LET doc == hs_response.body IN
    (/\ Fetched
     /\ AllComplete(doc)
     /\ UnrecognizedIn(doc.skills) \cup UnrecognizedIn(doc.activities) # {}) =>
        /\ ret.kind = "return"
        /\ Len(warnings) = Cardinality(UnrecognizedIn(doc.skills))
                            + Cardinality(UnrecognizedIn(doc.activities))
        /\ BuiltFrom(hs_attrs, doc)
        /\ get_all_scores(hs_attrs).ok
        /\ get_all_levels(hs_attrs).ok
        /\ get_all_xp(hs_attrs).ok
        /\ get_all_activity_scores(hs_attrs).ok
        /\ get_all_kc(hs_attrs).ok

-----------------------------------------------------------------------------
(* C8 *)

-----------------------------------------------------------------------------
(* C9 *)

\* C9: an update() that raises leaves every record of the snapshot as it was
\* before the call.
C9_UpdateAtomic ==
    [][(op = "update" /\ pc = "fetch" /\ pc' = "done" /\ ret'.kind = "raise")
          => hs_attrs' = hs_attrs]_vars

-----------------------------------------------------------------------------
(* C5 *)

\* the outcome of reading the price record of one id out of the snapshot
FoundRecord(id) ==
    /\ ret.kind = "return"
    /\ ret.item = DictGet(itemdata, id)
    /\ ret.item.item_id = id
MissingRecord ==
    /\ ret.kind = "raise"
    /\ ret.exc = "KeyError"
    /\ ret.val = "itemdata"
NothingResolved ==
    /\ ret.kind = "raise"
    /\ ret.exc = "KeyError"
    /\ ret.val = "no id found"

\* the positions of the lowercase-name table whose key starts with q
Hits(q) == {i \in 1..Len(item_name_map) : StartsWith(item_name_map[i].key, q)}

\* C5: a query that parses as an integer is answered with the price record
\* keyed by the decimal string of that integer, and with the not-found error
\* when the snapshot has no such record, whatever names the query is a
\* prefix of.
C5_IntegerQueryDirect ==
    (op = "get_price_info" /\ int(query).ok) =>
        LET id == Str(int(query).val)
        IN  IF DictHas(itemdata, id) THEN FoundRecord(id) ELSE MissingRecord

\* the query "0" is a prefix of a name whose id has a price record, and the
\* call still fails because no record is keyed "0"
C5_Witness ==
    /\ op = "get_price_info"
    /\ query = <<"0">>
    /\ \E i \in Hits(query) : DictHas(itemdata, item_name_map[i].val)
    /\ MissingRecord

-----------------------------------------------------------------------------
(* C6 *)

\* the lowercase-name table holds one key per lowercased name of the
\* mapping document, in the order the names first occur, each with the
\* decimal id of the last item of that name
NameTableInInsertionOrder ==
    LET items == mapping_json.items
        Occ(k) == {i \in 1..Len(items) : Lower(items[i].name) = k}
        FirstOcc(k) == CHOOSE i \in Occ(k) : \A j \in Occ(k) : i <= j
        LastOcc(k) == CHOOSE i \in Occ(k) : \A j \in Occ(k) : j <= i
    IN  /\ DictKeys(item_name_map) = {Lower(items[i].name) : i \in 1..Len(items)}
        /\ \A a \in 1..Len(item_name_map) :
              /\ item_name_map[a].val = Str(items[LastOcc(item_name_map[a].key)].id)
              /\ \A b \in (a + 1)..Len(item_name_map) :
                    FirstOcc(item_name_map[a].key) < FirstOcc(item_name_map[b].key)

\* C6: a query that does not parse as an integer is answered from the id of
\* the first key of the lowercase-name table, in insertion order, that
\* starts with the lowercased query, and with the not-found error when no
\* key does; queries that differ only in letter case have the same answer,
\* and a repeated query on the same checker has the same answer.
C6_FirstMatchPrefix ==
    /\ [](op = "get_price_info" /\ ~int(query).ok =>
            /\ NameTableInInsertionOrder
            /\ LET hits == Hits(Lower(query))
               IN  IF hits = {} THEN NothingResolved
                   ELSE LET first == CHOOSE i \in hits : \A j \in hits : i <= j
                            id == item_name_map[first].val
                        IN  IF DictHas(itemdata, id) THEN FoundRecord(id)
                            ELSE MissingRecord
            /\ \A other \in Queries :
                  (~int(other).ok /\ Lower(other) = Lower(query)) =>
                      get_price_info(item_name_map, itemdata, other) = ret)
    /\ [][(op = "get_price_info" /\ op' = "get_price_info" /\ query' = query)
             => ret' = ret]_vars

\* the query "D" matches two keys of the table and the answer is the record
\* of the first, the longer key "d1", not of the exact key "d"
C6_Witness ==
    /\ op = "get_price_info"
    /\ query = <<"D">>
    /\ Len(item_name_map) = 2
    /\ item_name_map[1] = [key |-> <<"d", "1">>, val |-> Str(10)]
    /\ item_name_map[2] = [key |-> <<"d">>, val |-> Str(1)]
    /\ DictHas(itemdata, Str(1))
    /\ FoundRecord(Str(10))

-----------------------------------------------------------------------------
(* C7 *)

CheckerOps == {"LatestRTPriceChecker", "AverageRTPriceChecker", "rt_update"}
CountUrl(url) == Cardinality({i \in 1..Len(requests) : requests[i].url = url})
LastUrl == requests[Len(requests)].url

\* C7: each fetch of the pricing source sends at most six requests, goes on
\* only after a status of 400 or more, fails on the sixth such status with
\* the error that carries it, and on the first status below 400 stops and
\* decodes the body of that response.
C7_PricingRetry ==
    op \in CheckerOps =>
        LET n_map == CountUrl("mapping")
            n_price == Len(requests) - n_map
            status == rt_response.status
        IN  /\ n_map <= 6
            /\ n_price <= 6
            /\ pc = "fetch_mapping" =>
                  /\ n_price = 0
                  /\ n_map = n_retries
                  /\ n_map <= 5
                  /\ n_map > 0 => status >= 400
            /\ pc = "fetch_prices" =>
                  /\ n_price = n_retries
                  /\ n_price <= 5
                  /\ n_price > 0 => status >= 400
                  /\ (n_price = 0 /\ op # "rt_update") =>
                        /\ n_map >= 1
                        /\ status < 400
                        /\ mapping_json = rt_response.body
            /\ (pc = "done" /\ Len(requests) > 0) =>
                  IF status >= 400
                  THEN /\ CountUrl(LastUrl) = 6
                       /\ ret = RaisedStatus("ValueError",
                                             IF LastUrl = "mapping" THEN "mapping"
                                             ELSE "data", status)
                  ELSE IF ~JsonLoads(rt_response.body).ok
                       THEN ret = Raised("JSONDecodeError", "body")
                       ELSE /\ LastUrl = endpoint
                            /\ IF "data" \in DOMAIN rt_response.body
                               THEN rt_json = rt_response.body.data
                               ELSE ret = Raised("KeyError", "data")

\* an update() whose six requests were all answered 400 or more fails with
\* the status of the sixth
C7_Witness ==
    /\ op = "rt_update"
    /\ pc = "done"
    /\ Len(requests) = 6
    /\ rt_response.status = 500
    /\ ret = RaisedStatus("ValueError", "data", 500)

-----------------------------------------------------------------------------
(* C10 *)

\* C10: after a construction or an update() that returned, the snapshot
\* holds a record for exactly the ids of the price document fetched last.
C10_SnapshotIsLastDocument ==
    (op \in CheckerOps /\ pc = "done" /\ ret.kind = "return") =>
        DictKeys(itemdata) = DictKeys(rt_json)

-----------------------------------------------------------------------------
(* C11 *)

\* C11: update() on a price checker, whether it returns or raises, sends
\* requests to the price endpoint only and never to the mapping endpoint,
\* and both lookup tables stay as the construction built them from the
\* mapping document.
C11_UpdateFrame ==
    /\ [](op = "rt_update" =>
            /\ \A i \in 1..Len(requests) :
                  requests[i].url = endpoint /\ requests[i].url # "mapping"
            /\ item_name_map = BuildNameMap(<<>>, mapping_json.items, 1)
            /\ item_id_map = BuildIdMap(<<>>, mapping_json.items, 1))
    /\ [][op' = "rt_update" =>
             /\ item_name_map' = item_name_map
             /\ item_id_map' = item_id_map
             /\ mapping_json' = mapping_json]_vars

\* an update() that failed after six requests on a checker whose tables
\* hold two names
C11_Witness ==
    /\ op = "rt_update"
    /\ pc = "done"
    /\ ret.kind = "raise"
    /\ Len(requests) = 6
    /\ Len(item_name_map) = 2
    /\ Len(item_id_map) = 2

-----------------------------------------------------------------------------
(* C12 *)

\* a construction whose arguments are wrong on their face: a target outside
\* the ten, a window other than "5m" and "1h", or a user agent that is None
\* or empty
BadConstruction ==
    \/ \E target \in TargetInputs \ ValidTargets : HighscoresInit(target)
    \/ \E ua \in UserAgents, period \in TimePeriods \ {"5m", "1h"} :
          AverageInit(ua, period)
    \/ \E ua \in {NoneUserAgent, ""} :
          \/ LatestInit(ua)
          \/ \E period \in TimePeriods : AverageInit(ua, period)

ConfigErrors ==
    { Raised("ValueError", "invalid target"),
      Raised("ValueError", "invalid time period"),
      Raised("AssertionError", "user_agent") }

\* C12: a construction with a target outside the ten, with a window other
\* than the two supported, or with a None or empty user agent raises at
\* once: no request has been sent, none is pending, nothing is retried and
\* no object is made.
C12_ConfigErrorsBeforeNetwork ==
    /\ [][BadConstruction =>
             /\ pc' = "done"
             /\ ret' \in ConfigErrors
             /\ requests' = <<>>
             /\ n_retries' = 0
             /\ hs_live' = hs_live
             /\ rt_live' = rt_live]_vars
    /\ [](ret \in ConfigErrors =>
             /\ pc = "done"
             /\ requests = <<>>
             /\ n_retries = 0
             /\ (op = "Highscores" => ~hs_live)
             /\ (op \in RtOps => ~rt_live))

\* AverageRTPriceChecker("app", "24h") has raised with no request sent
C12_Witness ==
    /\ op = "AverageRTPriceChecker"
    /\ ret = Raised("ValueError", "invalid time period")
    /\ pc = "done"
    /\ requests = <<>>
    /\ ~rt_live

-----------------------------------------------------------------------------
(* C13 *)

\* the entries of the document that carry a recognized name and lack one of
\* the fields of their kind
IncompleteSkills(doc) ==
    {i \in 1..Len(doc.skills) :
        LET e == doc.skills[i] IN
        "name" \in DOMAIN e /\ e.name \in DOMAIN entries_dict /\ ~SkillEntry(e).ok}
IncompleteActivities(doc) ==
    {i \in 1..Len(doc.activities) :
        LET e == doc.activities[i] IN
        "name" \in DOMAIN e /\ e.name \in DOMAIN entries_dict /\ ~ActivityEntry(e).ok}

\* C13: parsing warns only about entries whose name is not in the canonical
\* table, and a document with an entry of a recognized name that lacks a
\* field makes the constructing or refreshing call raise.
C13_OnlyUnknownNamesDowngraded ==
    Fetched =>
        LET doc == hs_response.body IN
        /\ \A i \in 1..Len(warnings) : warnings[i].name \notin DOMAIN entries_dict
        /\ IncompleteSkills(doc) \cup IncompleteActivities(doc) # {} =>
              ret.kind = "raise"

====
